---- MODULE Spec2Model ----
(***************************************************************************)
(* Model of the IndexList<T> generational arena / doubly linked list of    *)
(* src/src/lib.rs and of its two forward iterators of src/src/iter.rs.     *)
(*                                                                         *)
(* Slot positions are the 0-based Vec positions of the source; the slot at *)
(* position i is contents[i + 1].  Option::None is modelled by None.       *)
(***************************************************************************)
EXTENDS Integers, Sequences, FiniteSets, TLC

\* ------------------------------------------------------------------ bounds
\* The backing Vec grows to at most MaxLen slots.
MaxLen == 3
\* At most MaxGen removals succeed (the structure generation stays <= MaxGen).
MaxGen == 3
\* At most MaxPush pushes are made.
MaxPush == 4
\* A traversal is driven for at most MaxSteps calls of next().
MaxSteps == 5

\* Option::None, for Option<usize> and for Option<T> alike.
None == -1

VARIABLES
    contents,    \* IndexList.contents : Vec<Entry<T>>
    generation,  \* IndexList.generation
    next_free,   \* IndexList.next_free : Option<usize>
    head,        \* IndexList.head : Option<usize>
    tail,        \* IndexList.tail : Option<usize>
    pc,          \* "idle" | "iter" (a ForwardIter made by iter() borrows the list)
                 \*        | "forward_iter" (one made by ForwardIter::new does)
                 \*        | "into_iter" (a ForwardIntoIter owns the list)
    next_index,  \* the live iterator's next_index : Option<usize>
    yielded,     \* the values the live iterator has returned so far
    panic,       \* "none", or the message of the panic! that ended the program
    ret,         \* the last call and what it returned
    issued,      \* every handle a push returned, in order, with the pushed item
    removed,     \* every handle a remove succeeded on, in order
    max_live     \* the largest number of Occupied slots held at once so far

vars == <<contents, generation, next_free, head, tail, pc, next_index,
          yielded, panic, ret, issued, removed, max_live>>

list == <<contents, generation, next_free, head, tail>>

\* The value the next push stores.  IndexList<T> is generic in T and never
\* inspects a value, so the callers push 100, 200, 300, ... as the tests do:
\* every element is told apart from every other one.
Items == {100 * (Len(issued) + 1)}

\* ------------------------------------------------------------------ entries
Free(nf) == [tag |-> "Free", next_free |-> nf]

Occupied(item, gen, next, prev) ==
    [tag |-> "Occupied", item |-> item, generation |-> gen,
     next |-> next, prev |-> prev]

Index(index, gen) == [index |-> index, generation |-> gen]

\* contents.get(i): the entry at position i of c, when i is in bounds
InBounds(c, i) == i >= 0 /\ i < Len(c)
At(c, i) == c[i + 1]

IsOccupied(c, i) == InBounds(c, i) /\ At(c, i).tag = "Occupied"

\* The number of Occupied slots of the Vec c.
LiveCount(c) == Cardinality({i \in 0..(Len(c) - 1) : At(c, i).tag = "Occupied"})

OccupiedSlots == {i \in 0..(Len(contents) - 1) : At(contents, i).tag = "Occupied"}
FreeSlots == {i \in 0..(Len(contents) - 1) : At(contents, i).tag = "Free"}

\* ------------------------------------------------------------------ lookups
head_ref ==
    IF head = None THEN None
    ELSE IF ~InBounds(contents, head) THEN None
    ELSE IF At(contents, head).tag = "Free" THEN None
    ELSE At(contents, head).item

tail_ref ==
    IF tail = None THEN None
    ELSE IF ~InBounds(contents, tail) THEN None
    ELSE IF At(contents, tail).tag = "Free" THEN None
    ELSE At(contents, tail).item

get_ignoring_generation(h) ==
    IF ~InBounds(contents, h.index) THEN None
    ELSE IF At(contents, h.index).tag = "Free" THEN None
    ELSE At(contents, h.index).item

get_against_list_generation(h) ==
    IF ~InBounds(contents, h.index) THEN None
    ELSE IF At(contents, h.index).tag = "Free" THEN None
    ELSE IF At(contents, h.index).generation = generation
         THEN At(contents, h.index).item
         ELSE None

get(h) ==
    IF ~InBounds(contents, h.index) THEN None
    ELSE IF At(contents, h.index).tag = "Free" THEN None
    ELSE IF At(contents, h.index).generation = h.generation
         THEN At(contents, h.index).item
         ELSE None

get_mut(h) == get(h)

\* Every (slot position, generation) pair a caller can present.
Handles == {Index(i, g) : i \in 0..(MaxLen - 1), g \in 0..MaxGen}

\* ------------------------------------------------------------------ push
\* The private allocator: the slot the entry lands in, and the Vec and the
\* free-list head after it.
push_always_appending(new_entry) ==
    [index |-> Len(contents),
     contents |-> Append(contents, new_entry),
     next_free |-> next_free,
     panic |-> "none"]

push(new_entry) ==
    IF next_free = None
    THEN [index |-> Len(contents),
          contents |-> Append(contents, new_entry),
          next_free |-> next_free,
          panic |-> "none"]
    ELSE IF At(contents, next_free).tag = "Free"
    THEN [index |-> next_free,
          contents |-> [contents EXCEPT ![next_free + 1] = new_entry],
          next_free |-> At(contents, next_free).next_free,
          panic |-> "none"]
    ELSE [index |-> next_free,
          contents |-> contents,
          next_free |-> next_free,
          panic |-> "Corrupted list: Occupied next_free"]

push_back_entry_stamping_zero(item) ==
    IF head = None
    THEN Occupied(item, 0, None, None)
    ELSE Occupied(item, 0, None, tail)

push_back_entry(item) ==
    IF head = None
    THEN Occupied(item, generation, None, None)
    ELSE Occupied(item, generation, None, tail)

push_front_entry_next_tail(item) ==
    IF head = None
    THEN Occupied(item, generation, None, None)
    ELSE Occupied(item, generation, tail, None)

push_front_entry(item) ==
    IF head = None
    THEN Occupied(item, generation, None, None)
    ELSE Occupied(item, generation, head, None)

\* The guard of the pushes: at most MaxPush of them, and none that would grow
\* the Vec past MaxLen.
HasRoom ==
    /\ Len(issued) < MaxPush
    /\ (next_free # None \/ Len(contents) < MaxLen)

push_back(item) ==
    /\ pc = "idle" /\ panic = "none" /\ HasRoom
    /\ LET p == push(push_back_entry(item))
           index == p.index
       IN IF p.panic # "none"
          THEN /\ panic' = p.panic
               /\ UNCHANGED <<list, ret, issued, max_live>>
          ELSE IF tail # None /\ At(p.contents, tail).tag = "Free"
          THEN /\ panic' = "Corrupted list: Free tail"
               /\ contents' = p.contents
               /\ next_free' = p.next_free
               /\ UNCHANGED <<generation, head, tail, ret, issued, max_live>>
          ELSE /\ contents' = IF tail # None
                              THEN [p.contents EXCEPT ![tail + 1].next = index]
                              ELSE p.contents
               /\ next_free' = p.next_free
               /\ head' = IF head = None THEN index ELSE head
               /\ tail' = index
               /\ ret' = [op |-> "push_back", val |-> None]
               /\ issued' = Append(issued, [index |-> index,
                                            generation |-> generation,
                                            item |-> item, side |-> "back"])
               /\ max_live' = IF LiveCount(contents') > max_live
                               THEN LiveCount(contents')
                               ELSE max_live
               /\ UNCHANGED <<generation, panic>>
    /\ UNCHANGED <<pc, next_index, yielded, removed>>

push_front(item) ==
    /\ pc = "idle" /\ panic = "none" /\ HasRoom
    /\ LET p == push(push_front_entry(item))
           index == p.index
       IN IF p.panic # "none"
          THEN /\ panic' = p.panic
               /\ UNCHANGED <<list, ret, issued, max_live>>
          ELSE IF tail # None /\ At(p.contents, tail).tag = "Free"
          THEN /\ panic' = "Corrupted list: Free tail"
               /\ contents' = p.contents
               /\ next_free' = p.next_free
               /\ UNCHANGED <<generation, head, tail, ret, issued, max_live>>
          ELSE /\ contents' = IF tail # None
                              THEN [p.contents EXCEPT ![tail + 1].prev = index]
                              ELSE p.contents
               /\ next_free' = p.next_free
               /\ tail' = IF tail = None THEN index ELSE tail
               /\ head' = index
               /\ ret' = [op |-> "push_front", val |-> None]
               /\ issued' = Append(issued, [index |-> index,
                                            generation |-> generation,
                                            item |-> item, side |-> "front"])
               /\ max_live' = IF LiveCount(contents') > max_live
                               THEN LiveCount(contents')
                               ELSE max_live
               /\ UNCHANGED <<generation, panic>>
    /\ UNCHANGED <<pc, next_index, yielded, removed>>

\* ------------------------------------------------------------------ remove
\* What remove(h) returns: absent without a head or a tail, for a position out
\* of bounds, for a Free slot and for a generation mismatch.
remove_val_checking_head_ref(h) ==
    IF head_ref = None THEN None
    ELSE IF tail_ref = None THEN None
    ELSE IF ~InBounds(contents, h.index) THEN None
    ELSE IF At(contents, h.index).tag = "Free" THEN None
    ELSE IF At(contents, h.index).generation # h.generation THEN None
    ELSE At(contents, h.index).item

remove_val(h) ==
    IF head = None THEN None
    ELSE IF tail = None THEN None
    ELSE IF ~InBounds(contents, h.index) THEN None
    ELSE IF At(contents, h.index).tag = "Free" THEN None
    ELSE IF At(contents, h.index).generation # h.generation THEN None
    ELSE At(contents, h.index).item

\* The relinking of the two neighbours of the slot a successful remove(h)
\* takes out, and the head and tail references after it.
remove_links(h) ==
    LET prev == At(contents, h.index).prev
        next == At(contents, h.index).next
        prev_hit == prev # None /\ IsOccupied(contents, prev)
        c1 == IF prev_hit
              THEN [contents EXCEPT ![prev + 1].next = next]
              ELSE contents
        next_hit == next # None /\ IsOccupied(c1, next)
        c2 == IF next_hit
              THEN [c1 EXCEPT ![next + 1].prev = prev]
              ELSE c1
    IN [contents |-> c2,
        tail |-> IF prev_hit /\ h.index = tail THEN prev ELSE tail,
        head |-> IF next_hit /\ h.index = head THEN next ELSE head]

remove_apply_same_generation(h) ==
    LET l == remove_links(h)
    IN [contents |-> [l.contents EXCEPT ![h.index + 1] = Free(next_free)],
        head |-> l.head,
        tail |-> l.tail,
        next_free |-> h.index,
        generation |-> generation]

remove_apply_free_unlinked(h) ==
    LET l == remove_links(h)
    IN [contents |-> [l.contents EXCEPT ![h.index + 1] = Free(None)],
        head |-> l.head,
        tail |-> l.tail,
        next_free |-> h.index,
        generation |-> generation + 1]

\* The list after a successful remove(h).
remove_apply(h) ==
    LET l == remove_links(h)
    IN [contents |-> [l.contents EXCEPT ![h.index + 1] = Free(next_free)],
        head |-> l.head,
        tail |-> l.tail,
        next_free |-> h.index,
        generation |-> generation + 1]

remove_result_bumping_first(h) ==
    IF remove_val(h) = None
    THEN [contents |-> contents, head |-> head, tail |-> tail,
          next_free |-> next_free, generation |-> generation + 1]
    ELSE remove_apply(h)

\* The list after remove(h): as it was when remove returns absent.
remove_result(h) ==
    IF remove_val(h) = None
    THEN [contents |-> contents, head |-> head, tail |-> tail,
          next_free |-> next_free, generation |-> generation]
    ELSE remove_apply(h)

remove(h) ==
    /\ pc = "idle" /\ panic = "none" /\ generation < MaxGen
    /\ LET l == remove_result(h)
       IN /\ contents' = l.contents
          /\ head' = l.head
          /\ tail' = l.tail
          /\ next_free' = l.next_free
          /\ generation' = l.generation
    /\ ret' = [op |-> "remove", val |-> remove_val(h)]
    /\ removed' = IF remove_val(h) = None THEN removed ELSE Append(removed, h)
    /\ UNCHANGED <<pc, next_index, yielded, panic, issued, max_live>>

\* ------------------------------------------------------------------ reads
Get(h) ==
    /\ pc = "idle" /\ panic = "none"
    /\ ret' = [op |-> "get", val |-> get(h)]
    /\ UNCHANGED <<list, pc, next_index, yielded, panic, issued, removed, max_live>>

GetMut(h) ==
    /\ pc = "idle" /\ panic = "none"
    /\ ret' = [op |-> "get_mut", val |-> get_mut(h)]
    /\ UNCHANGED <<list, pc, next_index, yielded, panic, issued, removed, max_live>>

head_accessor ==
    /\ pc = "idle" /\ panic = "none"
    /\ \E op \in {"head", "head_mut"} : ret' = [op |-> op, val |-> head_ref]
    /\ UNCHANGED <<list, pc, next_index, yielded, panic, issued, removed, max_live>>

tail_accessor ==
    /\ pc = "idle" /\ panic = "none"
    /\ \E op \in {"tail", "tail_mut"} : ret' = [op |-> op, val |-> tail_ref]
    /\ UNCHANGED <<list, pc, next_index, yielded, panic, issued, removed, max_live>>

\* ------------------------------------------------------------------ iterators
\* iter(): a ForwardIter that borrows the list and starts at head.
iter ==
    /\ pc = "idle" /\ panic = "none"
    /\ pc' = "iter"
    /\ next_index' = head
    /\ yielded' = <<>>
    /\ ret' = [op |-> "iter", val |-> None]
    /\ UNCHANGED <<list, panic, issued, removed, max_live>>

\* The slot positions a caller can hand to ForwardIter::new: none, every
\* position the Vec can have, and one past them all (always out of bounds).
StartIndices == {None} \cup 0..MaxLen

\* ForwardIter::new(list, next_index): the public constructor; the traversal
\* starts at the slot position the caller gives, which need not be head, nor
\* Occupied, nor in bounds.
ForwardIter_new(start) ==
    /\ pc = "idle" /\ panic = "none"
    /\ pc' = "forward_iter"
    /\ next_index' = start
    /\ yielded' = <<>>
    /\ ret' = [op |-> "ForwardIter::new", val |-> None]
    /\ UNCHANGED <<list, panic, issued, removed, max_live>>

\* ForwardIter::next
ForwardIter_next ==
    /\ pc \in {"iter", "forward_iter"} /\ panic = "none"
    /\ Len(yielded) < MaxSteps
    /\ IF next_index = None
       THEN /\ ret' = [op |-> "next", val |-> None]
            /\ UNCHANGED <<next_index, yielded, panic>>
       ELSE IF ~InBounds(contents, next_index)
       THEN /\ panic' = "index out of bounds"
            /\ UNCHANGED <<next_index, yielded, ret>>
       ELSE IF At(contents, next_index).tag = "Free"
       THEN /\ panic' = "Corrupted list: Next in iterator"
            /\ UNCHANGED <<next_index, yielded, ret>>
       ELSE /\ next_index' = At(contents, next_index).next
            /\ yielded' = Append(yielded, At(contents, next_index).item)
            /\ ret' = [op |-> "next", val |-> At(contents, next_index).item]
            /\ UNCHANGED panic
    /\ UNCHANGED <<list, pc, issued, removed, max_live>>

\* The borrow ends: the ForwardIter is dropped and the list is usable again.
drop_iter ==
    /\ pc \in {"iter", "forward_iter"} /\ panic = "none"
    /\ pc' = "idle"
    /\ next_index' = None
    /\ yielded' = <<>>
    /\ ret' = [op |-> "drop", val |-> None]
    /\ UNCHANGED <<list, panic, issued, removed, max_live>>

\* into_iter(): a ForwardIntoIter that owns the list and starts at head.
into_iter ==
    /\ pc = "idle" /\ panic = "none"
    /\ pc' = "into_iter"
    /\ next_index' = head
    /\ yielded' = <<>>
    /\ ret' = [op |-> "into_iter", val |-> None]
    /\ UNCHANGED <<list, panic, issued, removed, max_live>>

\* ForwardIntoIter::next
ForwardIntoIter_next ==
    /\ pc = "into_iter" /\ panic = "none" /\ Len(yielded) < MaxSteps
    /\ IF next_index = None
       THEN /\ ret' = [op |-> "next", val |-> None]
            /\ UNCHANGED <<contents, next_index, yielded, panic>>
       ELSE IF At(contents, next_index).tag = "Free"
       THEN /\ panic' = "Corrupted list: Corrupt into iter"
            /\ contents' = [contents EXCEPT ![next_index + 1] = Free(None)]
            /\ UNCHANGED <<next_index, yielded, ret>>
       ELSE /\ contents' = [contents EXCEPT ![next_index + 1] = Free(None)]
            /\ next_index' = At(contents, next_index).next
            /\ yielded' = Append(yielded, At(contents, next_index).item)
            /\ ret' = [op |-> "next", val |-> At(contents, next_index).item]
            /\ UNCHANGED panic
    /\ UNCHANGED <<generation, next_free, head, tail, pc, issued, removed, max_live>>

\* ------------------------------------------------------------------ traversal
\* The slots a ForwardIter over the Vec c, started at slot i, visits in at most
\* fuel calls of next(), and how it ends: "none" at a none next-reference
\* (end-of-data), "free" at a Free slot (the panic of ForwardIter::next),
\* "fuel" when it is still running after fuel calls.
RECURSIVE Walk(_, _, _)
Walk(c, i, fuel) ==
    IF i = None THEN [slots |-> <<>>, end |-> "none"]
    ELSE IF At(c, i).tag = "Free" THEN [slots |-> <<>>, end |-> "free"]
    ELSE IF fuel = 0 THEN [slots |-> <<>>, end |-> "fuel"]
    ELSE LET w == Walk(c, At(c, i).next, fuel - 1)
         IN [slots |-> <<i>> \o w.slots, end |-> w.end]

\* The traversal iter() starts on the list (c, hd); one call more than there
\* are slots shows a cycle.
ChainOf(c, hd) == Walk(c, hd, Len(c) + 1)

\* The values that traversal yields.
ItemsOf(c, hd) ==
    LET w == ChainOf(c, hd)
    IN [k \in 1..Len(w.slots) |-> At(c, w.slots[k]).item]

Chain == ChainOf(contents, head)
ChainItems == ItemsOf(contents, head)

\* ------------------------------------------------------------------ system
\* IndexList::new()
Init ==
    /\ contents = <<>>
    /\ generation = 0
    /\ next_free = None
    /\ head = None
    /\ tail = None
    /\ pc = "idle"
    /\ next_index = None
    /\ yielded = <<>>
    /\ panic = "none"
    /\ ret = [op |-> "new", val |-> None]
    /\ issued = <<>>
    /\ removed = <<>>
    /\ max_live = 0

Next ==
    \/ \E item \in Items : push_back(item)
    \/ \E item \in Items : push_front(item)
    \/ \E h \in Handles : remove(h)
    \/ \E h \in Handles : Get(h)
    \/ \E h \in Handles : GetMut(h)
    \/ head_accessor
    \/ tail_accessor
    \/ iter
    \/ \E start \in StartIndices : ForwardIter_new(start)
    \/ ForwardIter_next
    \/ drop_iter
    \/ into_iter
    \/ ForwardIntoIter_next

Spec == Init /\ [][Next]_vars

\* ------------------------------------------------------------------ history
\* The handle the k-th push returned.
IssuedHandle(k) == Index(issued[k].index, issued[k].generation)

RemovedHandles == {removed[k] : k \in 1..Len(removed)}

\* The k-th pushed element is live: no remove has succeeded on its handle.
Live(k) == IssuedHandle(k) \notin RemovedHandles

\* A step on which a remove returned a value, and the handle it was given.
RemoveStep == Len(removed') = Len(removed) + 1
RemovedNow == removed'[Len(removed')]

RECURSIVE Reverse(_)
Reverse(q) == IF q = <<>> THEN <<>> ELSE Reverse(Tail(q)) \o <<Head(q)>>

RECURSIVE Without(_, _)
Without(q, x) ==
    IF q = <<>> THEN <<>>
    ELSE IF Head(q) = x THEN Without(Tail(q), x)
    ELSE <<Head(q)>> \o Without(Tail(q), x)

\* ------------------------------------------------------------------ claims

\* C1: once remove(h) has succeeded, get(h), get_mut(h) and remove(h) return
\* absent in every later state, also when h's slot position is occupied again.
C1_StaleHandleAbsent ==
    \A k \in 1..Len(removed) :
        /\ get(removed[k]) = None
        /\ get_mut(removed[k]) = None
        /\ remove_val(removed[k]) = None

\* C1 witness: a removed handle whose slot position holds a later occupant,
\* with more pushes and removes made since.
C1_Witness ==
    /\ pc = "idle" /\ panic = "none"
    /\ Len(removed) >= 2
    /\ \E k \in 1..Len(removed) :
          /\ IsOccupied(contents, removed[k].index)
          /\ At(contents, removed[k].index).generation > removed[k].generation

\* C2: while h has not been removed, get(h) returns the value pushed with h
\* and remove(h) would return it, whatever pushes and removes of other handles
\* were made (the list has not been consumed by into_iter).
C2_LiveHandleResolves ==
    pc # "into_iter" =>
        \A k \in 1..Len(issued) :
            Live(k) => /\ get(IssuedHandle(k)) = issued[k].item
                       /\ remove_val(IssuedHandle(k)) = issued[k].item

\* C2 witness: a live handle that resolves after a removal of another handle
\* and a push that came after its own.
C2_Witness ==
    /\ pc = "idle" /\ panic = "none"
    /\ Len(removed) >= 1
    /\ \E k \in 1..Len(issued) :
          /\ Live(k)
          /\ k < Len(issued)
          /\ issued[Len(issued)].index = removed[1].index
          /\ get(IssuedHandle(k)) = issued[k].item

\* C3 (as claimed): after a successful remove(h) on a list whose traversal
\* reaches end-of-data, iter() yields exactly what it yielded before the
\* removal with h's element deleted.
C3_RemoveDeletesOnlyItsElement ==
    [][(pc = "idle" /\ RemoveStep /\ Chain.end = "none")
          => ItemsOf(contents', head')
               = Without(ChainItems, At(contents, RemovedNow.index).item)]_vars

\* C4 (as claimed): the forward traversal from head reaches end-of-data at
\* tail, having visited every Occupied slot exactly once and no Free slot.
C4_ChainCoversOccupied ==
    (pc # "into_iter" /\ panic = "none") =>
        /\ Chain.end = "none"
        /\ {Chain.slots[k] : k \in 1..Len(Chain.slots)} = OccupiedSlots
        /\ Len(Chain.slots) = Cardinality(OccupiedSlots)
        /\ (Chain.slots # <<>> => Chain.slots[Len(Chain.slots)] = tail)

\* C5 (as claimed): head and tail are both none exactly when no slot is
\* Occupied.
C5_EndsNoneIffEmpty ==
    (pc # "into_iter" /\ panic = "none") =>
        ((head = None /\ tail = None) <=> OccupiedSlots = {})

\* C6 (as claimed): on a list of at least two live elements, removing the
\* head element makes head() return the element that was second in traversal
\* order, and removing the tail element makes tail() return the one that was
\* second to last.
C6_RemoveEndAdvances ==
    [][(pc = "idle" /\ RemoveStep /\ Chain.end = "none"
          /\ Len(Chain.slots) >= 2)
          => LET n == Len(Chain.slots)
                 removedHead == RemovedNow.index = Chain.slots[1]
                 removedTail == RemovedNow.index = Chain.slots[n]
             IN /\ removedHead => head_ref' = ChainItems[2]
                /\ removedTail => tail_ref' = ChainItems[n - 1]]_vars

\* The values pushed at the front, and at the back, in push order.
IsFront(r) == r.side = "front"
IsBack(r) == r.side = "back"
ItemsPushed(q) == [k \in 1..Len(q) |-> q[k].item]
fronts == ItemsPushed(SelectSeq(issued, IsFront))
backs == ItemsPushed(SelectSeq(issued, IsBack))

\* C7: while only pushes have changed the list, iter() yields the front-pushed
\* values in reverse push order, then the back-pushed values in push order,
\* and reaches end-of-data; head() is the first value yielded, tail() the last.
C7_PushOrder ==
    (removed = <<>> /\ pc # "into_iter" /\ panic = "none") =>
        /\ Chain.end = "none"
        /\ ChainItems = Reverse(fronts) \o backs
        /\ (issued # <<>> =>
              /\ head_ref = ChainItems[1]
              /\ tail_ref = ChainItems[Len(ChainItems)])
        /\ (issued = <<>> => head_ref = None /\ tail_ref = None)

\* C7 witness: four pushes, front and back interleaved, and no removal.
C7_Witness ==
    /\ pc = "idle" /\ panic = "none" /\ removed = <<>>
    /\ Len(issued) >= 3
    /\ issued[1].side = "back"
    /\ issued[2].side = "front"
    /\ issued[3].side = "back"
    /\ ChainItems = <<200, 100, 300>>

\* C8 (as claimed): a borrowing traversal started by iter() ends after at most
\* as many values as there are live elements: it never yields more values
\* than the list holds Occupied slots.
C8_IterWithinLiveCount ==
    pc = "iter" => Len(yielded) <= Cardinality(OccupiedSlots)

\* C9 (as claimed): no sequence of push_front, push_back, remove, get, the
\* head and tail accessors, iter and into_iter on a list that started empty
\* reaches a "Corrupted list" panic.  (A traversal made by ForwardIter::new is
\* none of these calls: the claim does not speak of the panics it can reach
\* from a start the caller picked.)
C9_NeverCorrupted == pc # "forward_iter" => panic = "none"

\* C10: the structure generation is the number of removes that returned a
\* value: 0 at the start, one more after each of them, and unchanged by every
\* other operation.
C10_GenerationCountsRemovals == generation = Len(removed)

\* C10 witness: two removals have succeeded, pushes were made since, and the
\* last call was a remove that returned absent.
C10_Witness ==
    /\ generation = 2
    /\ Len(issued) >= 3
    /\ issued[Len(issued)].generation = 2
    /\ ret = [op |-> "remove", val |-> None]

\* C11 (as claimed): whenever some handle still resolves through get, both
\* head() and tail() return a value.
C11_EndsPresentWhileLive ==
    (pc # "into_iter" /\ panic = "none") =>
        ((\E h \in Handles : get(h) # None)
            => (head_ref # None /\ tail_ref # None))

\* The values of the elements whose handles still resolve.
LiveItems == {issued[k].item : k \in {j \in 1..Len(issued) : Live(j)}}

\* C12 (as claimed): a consuming traversal that has reached end-of-data has
\* yielded every live element exactly once and left the slots it visited Free.
C12_IntoIterYieldsEveryLive ==
    (pc = "into_iter" /\ panic = "none" /\ next_index = None) =>
        /\ {yielded[k] : k \in 1..Len(yielded)} = LiveItems
        /\ Len(yielded) = Cardinality(LiveItems)
        /\ OccupiedSlots = {}

\* A step on which push_front returned a handle, and the slot it filled.
PushFrontStep ==
    /\ Len(issued') = Len(issued) + 1
    /\ issued'[Len(issued')].side = "front"
PushedNow == issued'[Len(issued')].index

\* C13 (as claimed): push_front onto a non-empty list sets the prev of the
\* slot that was the head to the new slot and changes no other slot's prev.
C13_PushFrontRewiresOldHead ==
    [][(PushFrontStep /\ IsOccupied(contents, head))
          => /\ At(contents', head).prev = PushedNow
             /\ \A i \in OccupiedSlots \ {head, PushedNow} :
                   At(contents', i).prev = At(contents, i).prev]_vars

\* C14 (as claimed): prev and next of Occupied slots are mutual inverses, the
\* head slot has no prev and the tail slot has no next.
C14_LinksAreInverse ==
    (pc # "into_iter" /\ panic = "none") =>
        /\ \A a \in OccupiedSlots :
              /\ At(contents, a).next # None =>
                    /\ IsOccupied(contents, At(contents, a).next)
                    /\ At(contents, At(contents, a).next).prev = a
              /\ At(contents, a).prev # None =>
                    /\ IsOccupied(contents, At(contents, a).prev)
                    /\ At(contents, At(contents, a).prev).next = a
        /\ (IsOccupied(contents, head) => At(contents, head).prev = None)
        /\ (IsOccupied(contents, tail) => At(contents, tail).next = None)

\* C15: remove(h) returns a value exactly when get(h) returns one: the check
\* of head and tail at the top of remove rejects no handle that get accepts.
C15_RemoveAcceptsWhatGetAccepts ==
    pc # "into_iter" =>
        \A h \in Handles : (remove_val(h) # None) <=> (get(h) # None)

\* C15 witness: head() or tail() returns absent (the reference rests on a
\* freed slot) while a handle still resolves, and remove accepts it; a removed
\* handle is rejected by both.
C15_Witness ==
    /\ pc = "idle" /\ panic = "none"
    /\ (head_ref = None \/ tail_ref = None)
    /\ \E h \in Handles : get(h) # None /\ remove_val(h) = get(h)
    /\ \E h \in RemovedHandles : get(h) = None /\ remove_val(h) = None

\* A step on which a push returned a handle (PushedNow is the slot it filled).
PushStep == Len(issued') = Len(issued) + 1

\* The slot freed last among the slots that are Free now.
LastFreed ==
    LET ks == {k \in 1..Len(removed) :
                  At(contents, removed[k].index).tag = "Free"}
    IN IF ks = {} THEN None
       ELSE removed[CHOOSE k \in ks : \A j \in ks : j <= k].index

\* C16: a push appends a slot only when the free list is empty and otherwise
\* fills the slot at the free-list head, the slot freed last; the Vec never
\* shrinks, and its length is the largest number of elements that were live
\* at once so far.
C16_GrowsOnlyWhenFull ==
    /\ [](pc # "into_iter" => Len(contents) = max_live)
    /\ [][/\ Len(contents') >= Len(contents)
          /\ PushStep =>
                IF next_free = None
                THEN /\ PushedNow = Len(contents)
                     /\ Len(contents') = Len(contents) + 1
                ELSE /\ PushedNow = next_free
                     /\ next_free = LastFreed
                     /\ Len(contents') = Len(contents)]_vars

\* C16 witness: three elements were live at once, two slots have been freed
\* and one of them filled again: the Vec still has three slots.
C16_Witness ==
    /\ pc = "idle" /\ panic = "none"
    /\ max_live = 3 /\ Len(contents) = 3
    /\ Len(removed) >= 2 /\ Len(issued) = 4
    /\ Cardinality(OccupiedSlots) = 2
    /\ next_free # None

\* The slots the allocator would pop from the free list of the Vec c, started
\* at slot i, in at most fuel pops, and how the chain ends: "none" at a none
\* next_free, "occupied" at an Occupied slot (the panic of push), "fuel" when
\* it has not ended after fuel pops.
RECURSIVE FreeWalk(_, _, _)
FreeWalk(c, i, fuel) ==
    IF i = None THEN [slots |-> <<>>, end |-> "none"]
    ELSE IF At(c, i).tag = "Occupied" THEN [slots |-> <<>>, end |-> "occupied"]
    ELSE IF fuel = 0 THEN [slots |-> <<>>, end |-> "fuel"]
    ELSE LET w == FreeWalk(c, At(c, i).next_free, fuel - 1)
         IN [slots |-> <<i>> \o w.slots, end |-> w.end]

FreeChain == FreeWalk(contents, next_free, Len(contents) + 1)

\* C17: the chain from next_free through the Free slots' next_free ends at
\* none, visits every Free slot exactly once and no Occupied slot; its length
\* plus the number of Occupied slots is the length of the Vec.
C17_FreeListCoversFree ==
    pc # "into_iter" =>
        /\ FreeChain.end = "none"
        /\ {FreeChain.slots[k] : k \in 1..Len(FreeChain.slots)} = FreeSlots
        /\ Len(FreeChain.slots) = Cardinality(FreeSlots)
        /\ Len(FreeChain.slots) + Cardinality(OccupiedSlots) = Len(contents)

\* C17 witness: two Free slots chained behind next_free beside an Occupied
\* slot, after a freed slot had been filled again.
C17_Witness ==
    /\ pc = "idle" /\ panic = "none"
    /\ Len(FreeChain.slots) = 2
    /\ Cardinality(OccupiedSlots) = 1
    /\ Len(removed) = 3
    /\ \E k \in 1..Len(issued) : issued[k].generation >= 1

\* A step of a remove that returned absent, and a step of a call that only
\* reads: get, get_mut, the head and tail accessors, iter, ForwardIter::new
\* and the borrowing iterator's next.  A call that panics returns nothing and leaves ret as it
\* was: it is neither.
FailedRemoveStep ==
    /\ panic' = "none"
    /\ ret'.op = "remove" /\ ret'.val = None
ReadStep ==
    /\ panic' = "none"
    /\ \/ ret'.op \in {"get", "get_mut", "head", "head_mut", "tail",
                       "tail_mut", "iter", "ForwardIter::new"}
       \/ (ret'.op = "next" /\ pc \in {"iter", "forward_iter"})

\* C18: a remove that returns absent changes nothing of the structure (slots,
\* links, head, tail, free-list head, generation), and neither do get, head,
\* tail and iter.
C18_AbsentRemoveChangesNothing ==
    [][(FailedRemoveStep \/ ReadStep)
          => /\ contents' = contents
             /\ head' = head
             /\ tail' = tail
             /\ next_free' = next_free
             /\ generation' = generation]_vars

\* C18 witness: a remove has just returned absent on a list that holds an
\* element and has a removed (stale) handle.
C18_Witness ==
    /\ ret = [op |-> "remove", val |-> None]
    /\ OccupiedSlots # {}
    /\ Len(removed) >= 1
    /\ \E h \in RemovedHandles : IsOccupied(contents, h.index)

\* C19: a handle returned by a push carries the structure generation of that
\* moment, which is also the generation stored in its slot (and stays so while
\* the handle is live); no two handles ever issued agree in both slot position
\* and generation; no Occupied slot is stamped above the structure generation.
C19_HandlesAreUnique ==
    /\ [](pc # "into_iter" =>
            /\ \A j, k \in 1..Len(issued) :
                  j < k => IssuedHandle(j) # IssuedHandle(k)
            /\ \A k \in 1..Len(issued) :
                  Live(k) =>
                     /\ IsOccupied(contents, issued[k].index)
                     /\ At(contents, issued[k].index).generation
                           = issued[k].generation
            /\ \A i \in OccupiedSlots :
                  At(contents, i).generation <= generation)
    /\ [][PushStep =>
             /\ issued'[Len(issued')].generation = generation
             /\ At(contents', PushedNow).generation = generation]_vars

\* C19 witness: two handles were issued for the same slot position under
\* different generations; the later one is live and its slot is stamped below
\* the structure generation.
C19_Witness ==
    /\ pc = "idle" /\ panic = "none"
    /\ \E j, k \in 1..Len(issued) :
          /\ j < k
          /\ issued[j].index = issued[k].index
          /\ issued[j].generation < issued[k].generation
          /\ Live(k)
          /\ At(contents, issued[k].index).generation < generation

====
